---- MODULE Spec2Model ----
(***************************************************************************)
(* Model of hic_resolution_rs: the coverage store (src/src/coverage.rs),   *)
(* the chunked parallel aggregator (src/src/cli.rs) and the resolution     *)
(* search (src/src/resolution.rs).                                         *)
(*                                                                         *)
(* Rust vectors are 0-based; TLA+ sequences are 1-based.  A Rust index k   *)
(* is the TLA+ index k + 1 throughout.                                     *)
(*                                                                         *)
(* The program's u32 is modelled as an unsigned integer of u32_bits bits.  *)
(* u32_bits is fixed by Init for a whole behaviour (32 in the program, a   *)
(* smaller width here so that saturation and overflow are reachable).      *)
(***************************************************************************)
EXTENDS Integers, Sequences, FiniteSets, TLC

VARIABLES
    u32_bits,        \* width of the modelled u32
    overflow_checks, \* build profile: TRUE = arithmetic overflow panics, FALSE = wraps
    coverage,        \* the Coverage struct: [bins, bin_width, chr_lengths]
    pc,              \* position of the program
    calls,           \* number of public API calls made so far (library use)
    chunk_pairs,     \* process_pairs argument
    subchunk_pairs,  \* process_pairs argument
    buf,             \* process_pairs: the aggregation chunk buffer
    count,           \* process_pairs: the record counter
    ret,             \* process_pairs: where aggregate_pairs_chunk was called from
    partials,        \* aggregate_pairs_chunk: per sub-chunk [done, out]
    seen,            \* history: per bin, endpoints handed to the program that lie in it
    ref,             \* history: the store built by add_pair on the same records
    peak,            \* history: per bin, the largest value the counter ever held
    cgb_args,        \* count_good_bins call: [bin_size, threshold]
    cgb_ret,         \* count_good_bins call: its outcome [panic, val]
    rnd_args,        \* round_to_bin_multiple call: [value, bin_width]
    rnd_ret,         \* round_to_bin_multiple call: its outcome [panic, val]
    gc_args,         \* get_counts call: [bin_size]
    gc_ret,          \* get_counts call: its outcome [panic, diverges, val]
    prop,            \* find_resolution argument, as the fraction <<num, den>>
    count_threshold, \* find_resolution argument
    step_size,       \* find_resolution argument
    genome_size,     \* find_resolution local (u64)
    adjusted_step_size, \* find_resolution local
    limit,           \* find_resolution local
    low,             \* find_resolution local
    high,            \* find_resolution local
    iteration,       \* find_resolution local: coarse loop counter
    found_upper,     \* find_resolution local
    binary_iteration, \* find_resolution local: binary loop counter
    resolution,      \* find_resolution: the value returned
    tested           \* history: the bin sizes passed to count_good_bins, in
                     \* order, each [size, ok, panic]

machineVars == <<u32_bits, overflow_checks>>

storeVars == <<coverage, calls, chunk_pairs, subchunk_pairs, buf, count, ret,
               partials, seen, ref, peak>>

callVars == <<cgb_args, cgb_ret, rnd_args, rnd_ret, gc_args, gc_ret>>

searchArgs == <<prop, count_threshold, step_size>>

searchLocals == <<genome_size, adjusted_step_size, limit, low, high, iteration,
                  found_upper, binary_iteration>>

searchVars == <<searchArgs, searchLocals, resolution, tested>>

vars == <<machineVars, storeVars, pc, callVars, searchVars>>

(***************************************************************************)
(* Bounds of the model.                                                    *)
(***************************************************************************)
StoreBits == 2          \* u32 width used while the store is being built
MaxChroms == 2          \* at most this many chromosomes in the layout
MaxLen == 2             \* chromosome lengths are 0..MaxLen
MaxBinWidth == 2        \* bin widths are 1..MaxBinWidth
MaxPos == 1             \* endpoint positions are 0..MaxPos
MaxPairs == 2           \* records in the stream / API calls per behaviour
SubchunkFloor == 1      \* the 16_000 floor of the sub-chunk size, scaled down

Min(a, b) == IF a < b THEN a ELSE b
Max(a, b) == IF a > b THEN a ELSE b

RECURSIVE Pow2(_)
Pow2(n) == IF n = 0 THEN 1 ELSE 2 * Pow2(n - 1)

U32_MAX == Pow2(u32_bits) - 1

(***************************************************************************)
(* Primitive integer operations of the program.                            *)
(***************************************************************************)
wrap_u32(x) == x % (U32_MAX + 1)

wrapping_add(a, b) == wrap_u32(a + b)

saturating_add(a, b) == IF a + b > U32_MAX THEN U32_MAX ELSE a + b

saturating_sub(a, b) == IF a < b THEN 0 ELSE a - b

(***************************************************************************)
(* Coverage (src/src/coverage.rs).                                         *)
(***************************************************************************)
\* let num_bins = (len / bin_width) + 1, an unchecked u32 addition: it
\* overflows when len / bin_width = u32::MAX.  from_lengths is the value built
\* when the addition wraps; from_lengths_panics tells when it panics instead.
num_bins(len, bin_width) == wrap_u32((len \div bin_width) + 1)

from_lengths_panics(bin_width, chr_lengths) ==
    /\ overflow_checks
    /\ \E c \in 1..Len(chr_lengths) :
          (chr_lengths[c] \div bin_width) + 1 > U32_MAX

from_lengths(bin_width, chr_lengths) ==
    [bins |-> [c \in 1..Len(chr_lengths) |->
                  [i \in 1..num_bins(chr_lengths[c], bin_width) |-> 0]],
     bin_width |-> bin_width,
     chr_lengths |-> chr_lengths]

increment(self, chr, pos) ==
    LET chr_idx == saturating_sub(chr, 1) IN
    IF chr_idx >= Len(self.bins) THEN self
    ELSE IF pos >= self.chr_lengths[chr_idx + 1] THEN self
    ELSE LET bin_idx == pos \div self.bin_width IN
         IF bin_idx < Len(self.bins[chr_idx + 1])
         THEN [self EXCEPT !.bins[chr_idx + 1][bin_idx + 1] = saturating_add(@, 1)]
         ELSE self

add_pair(self, pair) ==
    increment(increment(self, pair.chr1, pair.pos1), pair.chr2, pair.pos2)

(***************************************************************************)
(* Unchecked u32 arithmetic: `a + b` panics when overflow checks are on    *)
(* (debug profile) and wraps when they are off (release profile).  The     *)
(* outcome of a function is [panic, val]; val is meaningless after a panic.*)
(***************************************************************************)
RECURSIVE true_sum(_)
true_sum(xs) == IF xs = << >> THEN 0 ELSE Head(xs) + true_sum(Tail(xs))

\* iter().copied().sum::<u32>(): the additions are non-negative, so one of them
\* overflows exactly when the total exceeds U32_MAX.
iter_sum(xs) ==
    [overflow |-> true_sum(xs) > U32_MAX,
     val |-> true_sum(xs) % (U32_MAX + 1)]

\* slice.chunks(n): consecutive slices of n elements, the last one shorter.
chunks(xs, n) ==
    [k \in 1..((Len(xs) + n - 1) \div n) |->
        SubSeq(xs, ((k - 1) * n) + 1, Min(k * n, Len(xs)))]

LARGE_CHUNK == 1000

\* The large path dropping a shorter last chunk.
large_chunk_sums_floor(chr_bins, chunk_size) ==
    [chunk_idx \in 1..(Len(chr_bins) \div chunk_size) |->
        iter_sum(SubSeq(chr_bins, ((chunk_idx - 1) * chunk_size) + 1,
                        chunk_idx * chunk_size))]

\* The closure of count_good_bins_large for one chromosome: the sums of its
\* chunks, by chunk index.
large_chunk_sums(chr_bins, chunk_size) ==
    LET num_chunks == (Len(chr_bins) + chunk_size - 1) \div chunk_size IN
    [chunk_idx \in 1..num_chunks |->
        LET start == (chunk_idx - 1) * chunk_size
            end == Min(start + chunk_size, Len(chr_bins))
        IN iter_sum(SubSeq(chr_bins, start + 1, end))]

\* The closure of count_good_bins for one chromosome.
small_chunk_sums(chr_bins, chunk_size) ==
    [k \in DOMAIN chunks(chr_bins, chunk_size) |->
        iter_sum(chunks(chr_bins, chunk_size)[k])]

\* count += 1 for every chunk whose (u32) sum reaches the threshold.
count_good_le(sums, threshold) ==
    Cardinality({k \in DOMAIN sums : sums[k].val <= threshold})

count_good(sums, threshold) ==
    Cardinality({k \in DOMAIN sums : sums[k].val >= threshold})

RECURSIVE seq_sum_u64(_)
seq_sum_u64(xs) == IF xs = << >> THEN 0 ELSE Head(xs) + seq_sum_u64(Tail(xs))

count_good_bins_large(self, bin_size, threshold) ==
    LET bins_per_chunk == bin_size \div self.bin_width
        per_chr == [c \in DOMAIN self.bins |->
                       large_chunk_sums(self.bins[c], bins_per_chunk)]
    IN [panic |-> overflow_checks /\
                    \E c \in DOMAIN per_chr : \E k \in DOMAIN per_chr[c] :
                        per_chr[c][k].overflow,
        val |-> seq_sum_u64([c \in DOMAIN per_chr |->
                                count_good(per_chr[c], threshold)])]

\* bin_size / bin_width = 0 makes chunks(0) panic for every chromosome visited.
count_good_bins(self, bin_size, threshold) ==
    LET bins_per_chunk == bin_size \div self.bin_width IN
    IF bins_per_chunk >= LARGE_CHUNK
    THEN count_good_bins_large(self, bin_size, threshold)
    ELSE IF bins_per_chunk = 0
    THEN [panic |-> self.bins # << >>, val |-> 0]
    ELSE LET per_chr == [c \in DOMAIN self.bins |->
                            small_chunk_sums(self.bins[c], bins_per_chunk)]
         IN [panic |-> overflow_checks /\
                         \E c \in DOMAIN per_chr : \E k \in DOMAIN per_chr[c] :
                             per_chr[c][k].overflow,
             val |-> seq_sum_u64([c \in DOMAIN per_chr |->
                                     count_good(per_chr[c], threshold)])]

\* The closure of get_counts for one chromosome: the while loop pushes the
\* sum of chr_bins[i..end] and advances i by bins_per_chunk.
counts_of(chr_bins, chunk_size) ==
    [k \in 1..((Len(chr_bins) + chunk_size - 1) \div chunk_size) |->
        LET i == (k - 1) * chunk_size
            end == Min(i + chunk_size, Len(chr_bins))
        IN iter_sum(SubSeq(chr_bins, i + 1, end))]

\* bin_size / bin_width = 0 leaves i at 0: the loop of a non-empty
\* chromosome never ends.
get_counts(self, bin_size) ==
    LET bins_per_chunk == bin_size \div self.bin_width IN
    IF bins_per_chunk = 0
    THEN [panic |-> FALSE,
          diverges |-> \E c \in DOMAIN self.bins : self.bins[c] # << >>,
          val |-> [c \in DOMAIN self.bins |-> << >>]]
    ELSE LET per_chr == [c \in DOMAIN self.bins |->
                            counts_of(self.bins[c], bins_per_chunk)]
         IN [panic |-> overflow_checks /\
                         \E c \in DOMAIN per_chr : \E k \in DOMAIN per_chr[c] :
                             per_chr[c][k].overflow,
             diverges |-> FALSE,
             val |-> [c \in DOMAIN per_chr |->
                         [k \in DOMAIN per_chr[c] |-> per_chr[c][k].val]]]

total_genome_size(self) == seq_sum_u64(self.chr_lengths)

get_total_contacts(self) ==
    seq_sum_u64([c \in DOMAIN self.bins |-> seq_sum_u64(self.bins[c])])

get_non_zero_bins(self) ==
    seq_sum_u64([c \in DOMAIN self.bins |->
        Cardinality({i \in DOMAIN self.bins[c] : self.bins[c][i] > 0})])

(***************************************************************************)
(* round_to_bin_multiple (src/src/resolution.rs):                          *)
(*     ((value + bin_width - 1) / bin_width) * bin_width                   *)
(* evaluated left to right in u32: value + bin_width may overflow, and in  *)
(* the wrapping profile the following - 1 may then underflow.  The product *)
(* never exceeds the dividend, so it cannot overflow.                      *)
(***************************************************************************)
\* The candidate left as it is, not rounded up.
no_rounding(value, bin_width) == [panic |-> FALSE, val |-> value]

round_to_bin_multiple(value, bin_width) ==
    LET s1 == value + bin_width
        s2 == wrap_u32(s1) - 1
    IN [panic |-> \/ bin_width = 0
                  \/ (overflow_checks /\ (s1 > U32_MAX \/ s2 < 0)),
        val |-> IF bin_width = 0 THEN 0
                ELSE (wrap_u32(s2) \div bin_width) * bin_width]

(***************************************************************************)
(* The parallel aggregator (src/src/cli.rs, aggregate_pairs_chunk).        *)
(* A summary entry is <<key, count>>.                                      *)
(***************************************************************************)
pack(ci, b) == (ci * (U32_MAX + 1)) + b

key_chrom(key) == key \div (U32_MAX + 1)

key_bin(key) == key % (U32_MAX + 1)

scl(sub_pairs) == Max(sub_pairs, SubchunkFloor)

\* pairs.par_chunks(n): consecutive slices of n records, the last one shorter.
par_chunks(pairs, n) ==
    [k \in 1..((Len(pairs) + n - 1) \div n) |->
        SubSeq(pairs, ((k - 1) * n) + 1, Min(k * n, Len(pairs)))]

\* One end of a record: the entry pushed for it, if any.
end_entry(chr, pos, binw, chr_lens) ==
    LET ci == saturating_sub(chr, 1) IN
    IF ci < Len(chr_lens)
    THEN IF pos < chr_lens[ci + 1]
         THEN << <<pack(ci, pos \div binw), 1>> >>
         ELSE << >>
    ELSE << >>

RECURSIVE chunk_entries(_, _, _)
chunk_entries(chunk, binw, chr_lens) ==
    IF chunk = << >> THEN << >>
    ELSE LET p == Head(chunk) IN
         end_entry(p.chr1, p.pos1, binw, chr_lens)
         \o end_entry(p.chr2, p.pos2, binw, chr_lens)
         \o chunk_entries(Tail(chunk), binw, chr_lens)

\* vec.sort_unstable_by(key): entries with equal keys are equal here (count 1),
\* so every sort order gives the same vector.
RECURSIVE insert_by_key(_, _)
insert_by_key(e, sorted) ==
    IF sorted = << >> THEN <<e>>
    ELSE IF e[1] <= Head(sorted)[1] THEN <<e>> \o sorted
    ELSE <<Head(sorted)>> \o insert_by_key(e, Tail(sorted))

RECURSIVE sort_by_key(_)
sort_by_key(vec) ==
    IF vec = << >> THEN << >>
    ELSE insert_by_key(Head(vec), sort_by_key(Tail(vec)))

\* The run-length compression loop: (k, v) is the open run, out the closed runs.
RECURSIVE compress_from(_, _, _, _)
compress_from(k, v, rest, out) ==
    IF rest = << >> THEN Append(out, <<k, v>>)
    ELSE LET kk == Head(rest)[1]
             vv == Head(rest)[2]
         IN IF kk = k
            THEN compress_from(k, saturating_add(v, vv), Tail(rest), out)
            ELSE compress_from(kk, vv, Tail(rest), Append(out, <<k, v>>))

compress(vec) ==
    IF vec = << >> THEN << >>
    ELSE compress_from(Head(vec)[1], Head(vec)[2], Tail(vec), << >>)

\* The closure run by one worker on one sub-chunk.
subchunk_summary(chunk, binw, chr_lens) ==
    compress(sort_by_key(chunk_entries(chunk, binw, chr_lens)))

merge_entry(bins, key, v) ==
    LET ci == key_chrom(key)
        b == key_bin(key)
    IN IF ci < Len(bins)
       THEN IF b < Len(bins[ci + 1])
            THEN [bins EXCEPT ![ci + 1][b + 1] = saturating_add(@, v)]
            ELSE bins
       ELSE bins

RECURSIVE merge_part(_, _)
merge_part(bins, part) ==
    IF part = << >> THEN bins
    ELSE merge_part(merge_entry(bins, Head(part)[1], Head(part)[2]), Tail(part))

RECURSIVE merge_partials(_, _)
merge_partials(bins, parts) ==
    IF parts = << >> THEN bins
    ELSE merge_partials(merge_part(bins, Head(parts)), Tail(parts))

(***************************************************************************)
(* Inputs.                                                                 *)
(***************************************************************************)
BinWidths == 1..MaxBinWidth

\* Up to MaxChroms chromosomes of length 0..MaxLen, and the one-chromosome
\* genome whose length is the largest u32.
LengthSeqs ==
    UNION {[1..n -> 0..MaxLen] : n \in 0..MaxChroms} \cup {<<U32_MAX>>}

\* Per chromosome, floor(length / bin_width) + 1 zero counts, unbounded.
ZeroCounts(bin_width, chr_lengths) ==
    [c \in 1..Len(chr_lengths) |->
        [i \in 1..((chr_lengths[c] \div bin_width) + 1) |-> 0]]

Positions == 0..MaxPos

\* Coverage::increment takes any u8; 0 and MaxChroms + 1 are never layout indices.
ApiChroms == 0..(MaxChroms + 1)

\* The record source takes chromosome codes from the name table.  A table
\* read from a pairs header numbers the names (i + 1) as u8 (parser.rs), so
\* the 256th name gets code 0; a layout may list fewer chromosomes than codes.
StreamChroms == 0..MaxChroms

Pairs(chroms) ==
    [chr1 : chroms, pos1 : Positions, chr2 : chroms, pos2 : Positions]

(***************************************************************************)
(* History variables (not program state).                                  *)
(***************************************************************************)
InRange(cov, chr, pos) ==
    /\ chr >= 1
    /\ chr <= Len(cov.chr_lengths)
    /\ pos < cov.chr_lengths[chr]

SeenEndpoint(s, cov, chr, pos) ==
    IF InRange(cov, chr, pos)
    THEN [s EXCEPT ![chr][(pos \div cov.bin_width) + 1] = @ + 1]
    ELSE s

SeenPair(s, cov, p) ==
    SeenEndpoint(SeenEndpoint(s, cov, p.chr1, p.pos1), cov, p.chr2, p.pos2)

PeakOf(pk, bins) ==
    [c \in DOMAIN pk |->
        [i \in DOMAIN pk[c] |->
            IF c \in DOMAIN bins /\ i \in DOMAIN bins[c]
            THEN Max(pk[c][i], bins[c][i])
            ELSE pk[c][i]]]

NoOutcome == [panic |-> FALSE, val |-> 0]

NoCounts == [panic |-> FALSE, diverges |-> FALSE, val |-> << >>]

NoCalls ==
    /\ cgb_args = [bin_size |-> 0, threshold |-> 0]
    /\ cgb_ret = NoOutcome
    /\ rnd_args = [value |-> 0, bin_width |-> 0]
    /\ rnd_ret = NoOutcome
    /\ gc_args = [bin_size |-> 0]
    /\ gc_ret = NoCounts

NoLocals ==
    /\ genome_size = 0
    /\ adjusted_step_size = 0
    /\ limit = 0
    /\ low = 0
    /\ high = 0
    /\ iteration = 0
    /\ found_upper = FALSE
    /\ binary_iteration = 0
    /\ resolution = 0
    /\ tested = << >>

NoSearch ==
    /\ prop = <<0, 1>>
    /\ count_threshold = 0
    /\ step_size = 0
    /\ NoLocals

(***************************************************************************)
(* Building the store: library calls, or process_pairs as run() calls it.  *)
(***************************************************************************)
InitStore ==
    /\ u32_bits = StoreBits
    /\ overflow_checks \in BOOLEAN
    /\ \E bw \in BinWidths, lens \in LengthSeqs :
          /\ coverage = from_lengths(bw, lens)
          /\ seen = ZeroCounts(bw, lens)
          /\ pc = IF from_lengths_panics(bw, lens) THEN "panicked" ELSE "new"
    /\ calls = 0
    /\ chunk_pairs = 0
    /\ subchunk_pairs = 0
    /\ buf = << >>
    /\ count = 0
    /\ ret = "none"
    /\ partials = << >>
    /\ ref = coverage
    /\ peak = coverage.bins
    /\ NoCalls
    /\ NoSearch

Increment(chr, pos) ==
    /\ pc \in {"new", "incremented", "pair_added"}
    /\ calls < MaxPairs
    /\ coverage' = increment(coverage, chr, pos)
    /\ pc' = "incremented"
    /\ calls' = calls + 1
    /\ seen' = SeenEndpoint(seen, coverage, chr, pos)
    /\ ref' = coverage'
    /\ peak' = PeakOf(peak, coverage'.bins)
    /\ UNCHANGED <<callVars, searchVars>>
    /\ UNCHANGED <<u32_bits, overflow_checks, chunk_pairs, subchunk_pairs,
                   buf, count, ret, partials>>

AddPair(p) ==
    /\ pc \in {"new", "incremented", "pair_added"}
    /\ calls < MaxPairs
    /\ coverage' = add_pair(coverage, p)
    /\ pc' = "pair_added"
    /\ calls' = calls + 1
    /\ seen' = SeenPair(seen, coverage, p)
    /\ ref' = coverage'
    /\ peak' = PeakOf(peak, coverage'.bins)
    /\ UNCHANGED <<callVars, searchVars>>
    /\ UNCHANGED <<u32_bits, overflow_checks, chunk_pairs, subchunk_pairs,
                   buf, count, ret, partials>>

\* run() calls process_pairs with the command line's chunk sizes.
StartProcessPairs(cp, sp) ==
    /\ pc = "new"
    /\ pc' = "loop"
    /\ chunk_pairs' = cp
    /\ subchunk_pairs' = sp
    /\ buf' = << >>
    /\ count' = 0
    /\ UNCHANGED <<callVars, searchVars>>
    /\ UNCHANGED <<u32_bits, overflow_checks, coverage, calls, ret, partials,
                   seen, ref, peak>>

\* aggregate_pairs_chunk up to the fork: one pending summary per sub-chunk.
Fork(pairs) ==
    [k \in 1..Len(par_chunks(pairs, scl(subchunk_pairs))) |->
        [done |-> FALSE, out |-> << >>]]

\* One iteration of the for loop whose item is Ok(pair).
ReadPair(p) ==
    /\ pc = "loop"
    /\ count < MaxPairs
    /\ buf' = Append(buf, p)
    /\ seen' = SeenPair(seen, coverage, p)
    /\ ref' = add_pair(ref, p)
    /\ IF Len(buf') >= chunk_pairs
       THEN /\ pc' = "par"
            /\ ret' = "loop"
            /\ partials' = Fork(buf')
            /\ count' = count
       ELSE /\ count' = count + 1
            /\ UNCHANGED <<pc, ret, partials>>
    /\ UNCHANGED <<callVars, searchVars>>
    /\ UNCHANGED <<u32_bits, overflow_checks, coverage, calls, chunk_pairs,
                   subchunk_pairs, peak>>

\* A return at end-of-stream that leaves a partial buffer unmerged.
EndOfStreamNoFlush ==
    /\ pc = "loop"
    /\ pc' = "done"
    /\ UNCHANGED <<callVars, searchVars>>
    /\ UNCHANGED <<u32_bits, overflow_checks, coverage, calls, chunk_pairs,
                   subchunk_pairs, buf, count, ret, partials, seen, ref, peak>>

\* The iterator is exhausted: flush a partial buffer, or return Ok(count).
EndOfStream ==
    /\ pc = "loop"
    /\ IF buf # << >>
       THEN /\ pc' = "par"
            /\ ret' = "flush"
            /\ partials' = Fork(buf)
       ELSE /\ pc' = "done"
            /\ UNCHANGED <<ret, partials>>
    /\ UNCHANGED <<callVars, searchVars>>
    /\ UNCHANGED <<u32_bits, overflow_checks, coverage, calls, chunk_pairs,
                   subchunk_pairs, buf, count, seen, ref, peak>>

\* The iterator yields Err: `pair_result?` returns it.
StreamError ==
    /\ pc = "loop"
    /\ pc' = "error"
    /\ UNCHANGED <<callVars, searchVars>>
    /\ UNCHANGED <<u32_bits, overflow_checks, coverage, calls, chunk_pairs,
                   subchunk_pairs, buf, count, ret, partials, seen, ref, peak>>

\* One rayon worker finishes the summary of sub-chunk k.
Worker(k) ==
    /\ pc = "par"
    /\ k \in DOMAIN partials
    /\ ~partials[k].done
    /\ partials' = [partials EXCEPT ![k] =
          [done |-> TRUE,
           out |-> subchunk_summary(par_chunks(buf, scl(subchunk_pairs))[k],
                                    coverage.bin_width, coverage.chr_lengths)]]
    /\ UNCHANGED <<callVars, searchVars>>
    /\ UNCHANGED <<u32_bits, overflow_checks, coverage, pc, calls, chunk_pairs,
                   subchunk_pairs, buf, count, ret, seen, ref, peak>>

\* A merge that does not wait for the workers: it adds the summaries that
\* happen to be complete.
MergeEarly ==
    /\ pc = "par"
    /\ coverage' = [coverage EXCEPT !.bins =
          merge_partials(@, [k \in DOMAIN partials |-> partials[k].out])]
    /\ peak' = PeakOf(peak, coverage'.bins)
    /\ buf' = << >>
    /\ partials' = << >>
    /\ ret' = "none"
    /\ IF ret = "loop"
       THEN pc' = "loop" /\ count' = count + 1
       ELSE pc' = "done" /\ count' = count
    /\ UNCHANGED <<callVars, searchVars>>
    /\ UNCHANGED <<u32_bits, overflow_checks, calls, chunk_pairs,
                   subchunk_pairs, seen, ref>>

\* collect() has joined every worker: the sequential merge, then the caller's
\* buf.clear() and, in the loop, count += 1.
Merge ==
    /\ pc = "par"
    /\ \A k \in DOMAIN partials : partials[k].done
    /\ coverage' = [coverage EXCEPT !.bins =
          merge_partials(@, [k \in DOMAIN partials |-> partials[k].out])]
    /\ peak' = PeakOf(peak, coverage'.bins)
    /\ buf' = << >>
    /\ partials' = << >>
    /\ ret' = "none"
    /\ IF ret = "loop"
       THEN pc' = "loop" /\ count' = count + 1
       ELSE pc' = "done" /\ count' = count
    /\ UNCHANGED <<callVars, searchVars>>
    /\ UNCHANGED <<u32_bits, overflow_checks, calls, chunk_pairs,
                   subchunk_pairs, seen, ref>>

NextStore ==
    \/ \E chr \in ApiChroms, pos \in Positions : Increment(chr, pos)
    \/ \E p \in Pairs(ApiChroms) : AddPair(p)
    \/ \E cp \in 1..(MaxPairs + 1), sp \in 1..MaxPairs : StartProcessPairs(cp, sp)
    \/ \E p \in Pairs(StreamChroms) : ReadPair(p)
    \/ EndOfStream
    \/ StreamError
    \/ \E k \in 1..(MaxPairs + 1) : Worker(k)
    \/ Merge

Init == InitStore

Next == NextStore

Spec == Init /\ [][Next]_vars

(***************************************************************************)
(* Claims about the store and the aggregator, checked under Spec.          *)
(***************************************************************************)
BinOf(cov, pos) == (pos \div cov.bin_width) + 1

BufEndpoints ==
    {<<buf[k].chr1, buf[k].pos1>> : k \in DOMAIN buf}
    \cup {<<buf[k].chr2, buf[k].pos2>> : k \in DOMAIN buf}

\* C1: an endpoint whose chromosome index is outside [1, num_chromosomes]
\* (index 0 included) or whose position is >= the chromosome's length changes no
\* counter, in Coverage::increment and in the aggregator's merge.
C1_OutOfRangeIsNoOp ==
    [][/\ \A chr \in ApiChroms, pos \in Positions :
            (Increment(chr, pos) /\ ~InRange(coverage, chr, pos))
                => coverage' = coverage
       /\ (Merge /\ \A e \in BufEndpoints : ~InRange(coverage, e[1], e[2]))
            => coverage' = coverage]_vars

\* C2: a single increment at a valid (chrom, pos) whose counter is below the
\* maximum adds exactly 1 to bins[chrom-1][pos / bin_width] and changes nothing
\* else of the store (no other counter, not bin_width, not chr_lengths).
C2_PointLocality ==
    [][\A chr \in ApiChroms, pos \in Positions :
          (/\ Increment(chr, pos)
           /\ InRange(coverage, chr, pos)
           /\ BinOf(coverage, pos) \in DOMAIN coverage.bins[chr]
                 => coverage.bins[chr][BinOf(coverage, pos)] < U32_MAX)
          => /\ BinOf(coverage, pos) \in DOMAIN coverage.bins[chr]
             /\ coverage' =
                  [coverage EXCEPT !.bins[chr][BinOf(coverage, pos)] = @ + 1]]_vars

\* C3: when process_pairs returns, every bin holds the number of in-range
\* endpoints of the stream (chromosome index in [1, num_chromosomes], position
\* below the length) that fall in it, capped at the counter maximum, for every
\* chunk size, sub-chunk size and worker order; this is the store that
\* add_pair builds from the same records one by one.
C3_OrderIndependence ==
    pc = "done" =>
        /\ coverage = ref
        /\ \A c \in DOMAIN coverage.bins : \A i \in DOMAIN coverage.bins[c] :
              coverage.bins[c][i] = Min(seen[c][i], U32_MAX)


\* C4: a counter never wraps: it never exceeds the maximum, once it has held
\* the maximum it holds it for ever, and when more endpoints than the maximum
\* have been added to a bin (by increment, inside one sub-chunk's run, or by the
\* merge) the counter is the maximum.
C4_Saturation ==
    \A c \in DOMAIN coverage.bins : \A i \in DOMAIN coverage.bins[c] :
        /\ coverage.bins[c][i] <= U32_MAX
        /\ peak[c][i] = U32_MAX => coverage.bins[c][i] = U32_MAX
        /\ (buf = << >> /\ seen[c][i] > U32_MAX) => coverage.bins[c][i] = U32_MAX

C4_Witness ==
    /\ pc = "done"
    /\ chunk_pairs = 2
    /\ subchunk_pairs = 2
    /\ \E c \in DOMAIN coverage.bins : \E i \in DOMAIN coverage.bins[c] :
          seen[c][i] > U32_MAX /\ coverage.bins[c][i] = U32_MAX

\* C10: the store has one counter array per chromosome, of exactly
\* floor(length / bin_width) + 1 counters (1 for a chromosome shorter than
\* bin_width), all zero when constructed, and this shape never changes.
C10_StoreShape ==
    /\ pc # "panicked"
    /\ Len(coverage.bins) = Len(coverage.chr_lengths)
    /\ \A c \in DOMAIN coverage.bins :
          Len(coverage.bins[c]) = (coverage.chr_lengths[c] \div coverage.bin_width) + 1
    /\ pc = "new" =>
          \A c \in DOMAIN coverage.bins : \A i \in DOMAIN coverage.bins[c] :
              coverage.bins[c][i] = 0

(***************************************************************************)
(* count_good_bins called on a store: the store is drawn, then queried.    *)
(***************************************************************************)
CountBits == 10

CountLayouts ==
    {[bin_width |-> 10, chr_lengths |-> <<30>>],
     [bin_width |-> 10, chr_lengths |-> <<10, 25>>],
     [bin_width |-> 1, chr_lengths |-> <<2>>],
     [bin_width |-> 3, chr_lengths |-> << >>]}

CounterValues == {0, 3, 5, 12, U32_MAX}

AggFactors == {1, 2, 3, LARGE_CHUNK}

Thresholds == {0, 1, 8, 10, 13, U32_MAX}

\* Every store of a layout whose counters are among `values`: each is the
\* result of some sequence of increments.
Stores(layout, values) ==
    LET zero == from_lengths(layout.bin_width, layout.chr_lengths) IN
    {[zero EXCEPT !.bins = b] :
        b \in {bb \in [DOMAIN zero.bins ->
                            UNION {[1..Len(zero.bins[c]) -> values] :
                                     c \in DOMAIN zero.bins}] :
                  \A c \in DOMAIN zero.bins : Len(bb[c]) = Len(zero.bins[c])}}

IdleStore ==
    /\ calls = 0
    /\ chunk_pairs = 0
    /\ subchunk_pairs = 0
    /\ buf = << >>
    /\ count = 0
    /\ ret = "none"
    /\ partials = << >>
    /\ seen = coverage.bins
    /\ ref = coverage
    /\ peak = coverage.bins

InitCount ==
    /\ u32_bits = CountBits
    /\ overflow_checks \in BOOLEAN
    /\ \E layout \in CountLayouts :
          coverage \in Stores(layout, CounterValues)
    /\ IdleStore
    /\ pc = "built"
    /\ NoCalls
    /\ NoSearch

CountGoodBins(bin_size, threshold) ==
    /\ pc = "built"
    /\ pc' = "counted"
    /\ cgb_args' = [bin_size |-> bin_size, threshold |-> threshold]
    /\ cgb_ret' = count_good_bins(coverage, bin_size, threshold)
    /\ UNCHANGED <<machineVars, storeVars, rnd_args, rnd_ret, gc_args, gc_ret,
                   searchVars>>

GetCounts(bin_size) ==
    /\ pc = "built"
    /\ pc' = "summed"
    /\ gc_args' = [bin_size |-> bin_size]
    /\ gc_ret' = get_counts(coverage, bin_size)
    /\ UNCHANGED <<machineVars, storeVars, cgb_args, cgb_ret, rnd_args, rnd_ret,
                   searchVars>>

NextCount ==
    \/ \E k \in AggFactors, threshold \in Thresholds :
          /\ k * coverage.bin_width <= U32_MAX
          /\ CountGoodBins(k * coverage.bin_width, threshold)
    \/ \E k \in AggFactors :
          /\ k * coverage.bin_width <= U32_MAX
          /\ GetCounts(k * coverage.bin_width)

SpecCount == InitCount /\ [][NextCount]_vars

(***************************************************************************)
(* round_to_bin_multiple called on drawn arguments.                        *)
(***************************************************************************)
RoundBits == 8

InitRound ==
    /\ u32_bits = RoundBits
    /\ overflow_checks \in BOOLEAN
    /\ coverage = from_lengths(1, << >>)
    /\ IdleStore
    /\ pc = "round_entry"
    /\ cgb_args = [bin_size |-> 0, threshold |-> 0]
    /\ cgb_ret = NoOutcome
    /\ rnd_args \in [value : 1..U32_MAX, bin_width : 1..U32_MAX]
    /\ rnd_ret = NoOutcome
    /\ gc_args = [bin_size |-> 0]
    /\ gc_ret = NoCounts
    /\ NoSearch

RoundCall ==
    /\ pc = "round_entry"
    /\ pc' = "rounded"
    /\ rnd_ret' = round_to_bin_multiple(rnd_args.value, rnd_args.bin_width)
    /\ UNCHANGED <<machineVars, storeVars, cgb_args, cgb_ret, rnd_args,
                   gc_args, gc_ret, searchVars>>

NextRound == RoundCall

SpecRound == InitRound /\ [][NextRound]_vars

(***************************************************************************)
(* find_resolution (src/src/resolution.rs).                                *)
(*                                                                         *)
(* prop is an f64 in the program.  For the fractions and the totals used   *)
(* here prop * total_bins truncated to u64 equals the exact               *)
(* floor(num * total_bins / den), which is what required_bins computes.    *)
(***************************************************************************)
MAX_REASONABLE_BIN == 10000000
BINARY_ITERATION_CAP == 100
SPARSE_STEP_FACTOR == 10

checked_add(a, b) ==
    [panic |-> overflow_checks /\ a + b > U32_MAX, val |-> wrap_u32(a + b)]

checked_sub(a, b) ==
    [panic |-> overflow_checks /\ a < b, val |-> wrap_u32(a - b)]

checked_mul(a, b) ==
    [panic |-> overflow_checks /\ a * b > U32_MAX, val |-> wrap_u32(a * b)]

required_bins(p, total_bins) == (p[1] * total_bins) \div p[2]

\* sparsity < 0.01, the quotient of two non-negative integers in f64:
\* NaN (0/0) and +inf (n/0) compare false.
is_sparse(non_zero_bins, total_base_bins) ==
    total_base_bins > 0 /\ 100 * non_zero_bins < total_base_bins

\* One evaluation of the criterion at bin size `size`:
\* good_bins >= required_bins, or a panic (overflowing chunk sum, chunk
\* size 0, division by zero).
criterion(self, size, p, threshold) ==
    LET good_bins == count_good_bins(self, size, threshold) IN
    IF size = 0 \/ good_bins.panic THEN [panic |-> TRUE, ok |-> FALSE]
    ELSE [panic |-> FALSE,
          ok |-> good_bins.val >=
                   required_bins(p, total_genome_size(self) \div size)]

Panicked ==
    /\ pc' = "panicked"
    /\ UNCHANGED <<searchLocals, resolution>>

\* Lines 9-48: the locals before the coarse loop.
Enter ==
    /\ pc = "fr_entry"
    /\ LET gs == total_genome_size(coverage)
           total_base_bins == gs \div coverage.bin_width
           adj == IF is_sparse(get_non_zero_bins(coverage), total_base_bins)
                  THEN checked_mul(step_size, SPARSE_STEP_FACTOR)
                  ELSE [panic |-> FALSE, val |-> step_size]
       IN IF adj.panic THEN Panicked
          ELSE /\ pc' = "coarse"
               /\ genome_size' = gs
               /\ low' = coverage.bin_width
               /\ high' = coverage.bin_width
               /\ adjusted_step_size' = adj.val
               /\ limit' = Min(MAX_REASONABLE_BIN, Min(gs, U32_MAX))
               /\ iteration' = 0
               /\ found_upper' = FALSE
               /\ UNCHANGED <<binary_iteration, resolution>>
    /\ UNCHANGED <<machineVars, storeVars, callVars, searchArgs, tested>>

\* Lines 50-112: one iteration of the coarse loop, and the return that
\* follows the loop when no upper bound was found.
CoarseStep ==
    /\ pc = "coarse"
    /\ LET c == criterion(coverage, high, prop, count_threshold)
           at_limit == round_to_bin_multiple(limit, coverage.bin_width)
           next == round_to_bin_multiple(
                       saturating_add(high, adjusted_step_size),
                       coverage.bin_width)
       IN IF c.panic THEN Panicked
          ELSE IF c.ok
          THEN /\ pc' = "binary"
               /\ found_upper' = TRUE
               /\ iteration' = iteration + 1
               /\ binary_iteration' = 0
               /\ UNCHANGED <<genome_size, adjusted_step_size, limit, low,
                              high, resolution>>
          ELSE IF high >= limit
          THEN IF at_limit.panic THEN Panicked
               ELSE /\ pc' = "returned"
                    /\ high' = at_limit.val
                    /\ resolution' = at_limit.val
                    /\ iteration' = iteration + 1
                    /\ UNCHANGED <<genome_size, adjusted_step_size, limit,
                                   low, found_upper, binary_iteration>>
          ELSE IF next.panic THEN Panicked
               ELSE /\ pc' = "coarse"
                    /\ low' = high
                    /\ high' = IF next.val = high
                               THEN saturating_add(next.val, coverage.bin_width)
                               ELSE next.val
                    /\ iteration' = iteration + 1
                    /\ UNCHANGED <<genome_size, adjusted_step_size, limit,
                                   found_upper, binary_iteration, resolution>>
    /\ LET c == criterion(coverage, high, prop, count_threshold) IN
          tested' = Append(tested,
                           [size |-> high, ok |-> c.ok, panic |-> c.panic])
    /\ UNCHANGED <<machineVars, storeVars, callVars, searchArgs>>

\* A loop condition that stops one bin width too early.
loop_bound_wide == checked_add(low, 2 * coverage.bin_width)

\* Line 118: the condition of the binary loop, high > low + bin_width.
loop_bound == checked_add(low, coverage.bin_width)

\* Lines 118-159: one iteration of the binary loop.
BinaryStep ==
    /\ pc = "binary"
    /\ loop_bound.panic \/ high > loop_bound.val
    /\ LET half == checked_sub(high, low)
           sum == checked_add(low, half.val \div 2)
           mid == round_to_bin_multiple(sum.val, coverage.bin_width)
           c == criterion(coverage, mid.val, prop, count_threshold)
           new_high == IF c.ok THEN mid.val ELSE high
           arith_panic == loop_bound.panic \/ half.panic \/ sum.panic \/ mid.panic
       IN IF arith_panic
          THEN Panicked /\ UNCHANGED tested
          ELSE IF c.panic
          THEN /\ Panicked
               /\ tested' = Append(tested, [size |-> mid.val, ok |-> FALSE,
                                            panic |-> TRUE])
          ELSE /\ high' = new_high
               /\ low' = IF c.ok THEN low ELSE mid.val
               /\ binary_iteration' = binary_iteration + 1
               /\ IF binary_iteration + 1 > BINARY_ITERATION_CAP
                  THEN pc' = "returned" /\ resolution' = new_high
                  ELSE pc' = "binary" /\ UNCHANGED resolution
               /\ tested' = Append(tested, [size |-> mid.val, ok |-> c.ok,
                                            panic |-> FALSE])
               /\ UNCHANGED <<genome_size, adjusted_step_size, limit,
                              iteration, found_upper>>
    /\ UNCHANGED <<machineVars, storeVars, callVars, searchArgs>>

\* Lines 118, 161-162: the loop condition fails and high is returned.
BinaryReturn ==
    /\ pc = "binary"
    /\ ~loop_bound.panic
    /\ ~(high > loop_bound.val)
    /\ pc' = "returned"
    /\ resolution' = high
    /\ UNCHANGED searchLocals
    /\ UNCHANGED <<machineVars, storeVars, callVars, searchArgs, tested>>

(***************************************************************************)
(* find_resolution called on a store: a family of small stores, and the    *)
(* two-chromosome genome of lengths 1000 and 2000 at bin width 50.         *)
(***************************************************************************)
SearchBits == 4
WideBits == 28
MaxSearchLen == 4
MaxCounter == 2
MaxStep == 4

SearchLayouts ==
    {[bin_width |-> bw, chr_lengths |-> <<len>>] :
        bw \in 1..MaxBinWidth, len \in 0..MaxSearchLen}

Props == {<<1, 2>>, <<4, 5>>, <<1, 1>>}

InitSearchSmall ==
    /\ u32_bits = SearchBits
    /\ overflow_checks \in BOOLEAN
    /\ \E layout \in SearchLayouts :
          coverage \in Stores(layout, 0..MaxCounter)
    /\ prop \in Props
    /\ count_threshold \in 1..MaxCounter
    /\ step_size \in 0..MaxStep

\* Chromosome 1 (21 base bins) and the tail of chromosome 2 (41 base bins)
\* hold 1000 contacts in every other base bin; the first 6 * blocks base
\* bins of chromosome 2 repeat `block`.
alternating(i) == IF i % 2 = 1 THEN 1000 ELSE 0

EndToEndBlocks == {<<0, 0, 500, 500, 0, 0>>, <<1000, 0, 1000, 0, 1000, 0>>}

EndToEndStore(block, blocks) ==
    LET zero == from_lengths(50, <<1000, 2000>>) IN
    [zero EXCEPT
        !.bins = <<[i \in DOMAIN zero.bins[1] |-> alternating(i)],
                   [i \in DOMAIN zero.bins[2] |->
                        IF i <= 6 * blocks THEN block[((i - 1) % 6) + 1]
                        ELSE alternating(i)]>>]

InitSearchEndToEnd ==
    /\ u32_bits = WideBits
    /\ overflow_checks \in BOOLEAN
    /\ \E block \in EndToEndBlocks, blocks \in 0..6 :
          coverage = EndToEndStore(block, blocks)
    /\ prop = <<4, 5>>
    /\ count_threshold = 1000
    /\ step_size \in {50, 100, 1000}

\* Extreme arguments the types allow: a bin width above half the u32 range,
\* and counters at the saturation value.
LargeBinWidth == Pow2(SearchBits - 1) + 1

ExtremeLayouts ==
    {[bin_width |-> LargeBinWidth, chr_lengths |-> <<len>>] :
        len \in 0..MaxSearchLen}
    \cup {[bin_width |-> 1, chr_lengths |-> <<2>>],
          [bin_width |-> 2, chr_lengths |-> <<4>>]}

InitSearchExtreme ==
    /\ u32_bits = SearchBits
    /\ overflow_checks \in BOOLEAN
    /\ \E layout \in ExtremeLayouts :
          coverage \in Stores(layout, {0, 1, U32_MAX})
    /\ prop \in Props
    /\ count_threshold \in 1..MaxCounter
    /\ step_size \in 0..MaxStep

\* A genome above the 10 Mb ceiling: the two chromosomes of the end-to-end
\* genome, 100000 times longer, at a bin width 100000 times larger.
CeilingStore(block, blocks) ==
    [EndToEndStore(block, blocks) EXCEPT
        !.bin_width = 5000000,
        !.chr_lengths = <<100000000, 200000000>>]

InitSearchCeiling ==
    /\ u32_bits = WideBits
    /\ overflow_checks \in BOOLEAN
    /\ \E block \in EndToEndBlocks, blocks \in 0..6 :
          coverage = CeilingStore(block, blocks)
    /\ prop = <<4, 5>>
    /\ count_threshold = 1000
    /\ step_size \in {5000000, 10000000}

InitSearch ==
    /\ \/ InitSearchSmall
       \/ InitSearchEndToEnd
       \/ InitSearchExtreme
       \/ InitSearchCeiling
    /\ IdleStore
    /\ pc = "fr_entry"
    /\ NoCalls
    /\ NoLocals

NextSearch ==
    \/ Enter
    \/ CoarseStep
    \/ BinaryStep
    \/ BinaryReturn

SpecSearch == InitSearch /\ [][NextSearch]_vars

(***************************************************************************)
(* Properties of count_good_bins, round_to_bin_multiple, find_resolution.  *)
(***************************************************************************)
\* The chunks of one chromosome's bins, as index ranges: chunk j (from 0)
\* covers the bins j*k + 1 .. min((j+1)*k, n).
chunk_true_sum(row, k, j) ==
    true_sum(SubSeq(row, (j * k) + 1, Min((j + 1) * k, Len(row))))

good_chunks_of(row, k, threshold) ==
    Cardinality({j \in 0..(((Len(row) + k - 1) \div k) - 1) :
                    chunk_true_sum(row, k, j) >= threshold})

RECURSIVE good_chunks_ref(_, _, _)
good_chunks_ref(bins, k, threshold) ==
    IF bins = << >> THEN 0
    ELSE good_chunks_of(Head(bins), k, threshold)
         + good_chunks_ref(Tail(bins), k, threshold)

\* C6: count_good_bins(agg_bin_size, threshold), agg_bin_size a positive
\* multiple of bin_width, returns the number of per-chromosome chunks of
\* k = agg_bin_size / bin_width consecutive base bins (last chunk possibly
\* shorter) whose sum is >= threshold; [5,3,0,12], k = 2, threshold 10 gives 1.
C6_MatchesReference ==
    pc = "counted" =>
        /\ ~cgb_ret.panic
        /\ cgb_ret.val =
             good_chunks_ref(coverage.bins,
                             cgb_args.bin_size \div coverage.bin_width,
                             cgb_args.threshold)

\* C7: for a fixed store and bin size, count_good_bins is non-increasing in
\* the threshold: whether the call completes does not depend on the
\* threshold, and a larger threshold never gives a larger count.
C7_MonotoneInThreshold ==
    pc = "counted" =>
        \A t2 \in Thresholds :
            LET other == count_good_bins(coverage, cgb_args.bin_size, t2) IN
            /\ other.panic = cgb_ret.panic
            /\ (~cgb_ret.panic /\ cgb_args.threshold <= t2)
                  => cgb_ret.val >= other.val
            /\ (~cgb_ret.panic /\ t2 <= cgb_args.threshold)
                  => other.val >= cgb_ret.val

C7_Witness ==
    /\ pc = "counted"
    /\ ~cgb_ret.panic
    /\ coverage.bins = <<<<5, 3, 0, 12>>>>
    /\ cgb_args = [bin_size |-> 20, threshold |-> 8]
    /\ cgb_ret.val = 2
    /\ count_good_bins(coverage, 20, 10).val = 1
    /\ count_good_bins(coverage, 20, 13).val = 0

\* C8: round_to_bin_multiple(v, w), v >= 1 and w >= 1, returns the least
\* multiple of w that is >= v: (75,50) -> 100, (100,50) -> 100,
\* (125,50) -> 150, (1,50) -> 50.
C8_LeastMultiple ==
    pc = "rounded" =>
        /\ ~rnd_ret.panic
        /\ rnd_ret.val % rnd_args.bin_width = 0
        /\ rnd_ret.val >= rnd_args.value
        /\ rnd_ret.val - rnd_args.bin_width < rnd_args.value

EndToEndScenario ==
    /\ coverage.bin_width = 50
    /\ coverage.chr_lengths = <<1000, 2000>>
    /\ prop = <<4, 5>>
    /\ count_threshold = 1000
    /\ 5 * count_good_bins(coverage, 100, 1000).val
          = 4 * (total_genome_size(coverage) \div 100)
    /\ ~criterion(coverage, 50, prop, count_threshold).ok

least_multiple(v, w) == ((v + w - 1) \div w) * w

ceiling_of(self) == Min(MAX_REASONABLE_BIN, total_genome_size(self))

\* C11: when the coarse scan ends at the ceiling min(10,000,000, genome_size)
\* with no evaluated candidate satisfying the criterion, find_resolution
\* skips the binary search and returns the ceiling rounded up to a multiple
\* of bin_width, and the criterion does not hold at the returned value.
C11_CeilingNotSatisfying ==
    (pc = "returned" /\ ~found_upper) =>
        /\ binary_iteration = 0
        /\ \A k \in DOMAIN tested : ~tested[k].ok
        /\ resolution = least_multiple(ceiling_of(coverage), coverage.bin_width)
        /\ ~criterion(coverage, resolution, prop, count_threshold).ok

\* C12: the binary-search phase always ends by returning: it stops when
\* high <= low + bin_width or, at the latest, once its iteration count exceeds
\* 100, and then the value returned is the current high.
C12_BinaryPhaseReturnsHigh ==
    /\ found_upper => pc # "panicked"
    /\ (pc = "returned" /\ found_upper) =>
          /\ resolution = high
          /\ \/ high <= low + coverage.bin_width
             \/ binary_iteration > BINARY_ITERATION_CAP

\* C13: every bin size that the coarse scan or the binary search passes to
\* count_good_bins is a positive exact multiple of bin_width.
C13_CandidatesAligned ==
    \A k \in DOMAIN tested :
        /\ tested[k].size > 0
        /\ tested[k].size % coverage.bin_width = 0

(***************************************************************************)
(* run(): the store is built from the stream by process_pairs and is then  *)
(* lent to find_resolution.                                                *)
(***************************************************************************)
RunPairs ==
    {p \in Pairs(StreamChroms) : p.chr1 = p.chr2 /\ p.pos1 = p.pos2}

RunProps == {<<1, 2>>, <<1, 1>>}

\* A search entered while the stream is still being read.
StartSearchEarly(p, threshold, step) ==
    /\ pc = "loop"
    /\ pc' = "fr_entry"
    /\ prop' = p
    /\ count_threshold' = threshold
    /\ step_size' = step
    /\ UNCHANGED <<machineVars, storeVars, callVars, searchLocals, resolution,
                   tested>>

\* A search entered although process_pairs returned the stream's error.
StartSearchDespiteError(p, threshold, step) ==
    /\ pc \in {"done", "error"}
    /\ pc' = "fr_entry"
    /\ prop' = p
    /\ count_threshold' = threshold
    /\ step_size' = step
    /\ UNCHANGED <<machineVars, storeVars, callVars, searchLocals, resolution,
                   tested>>

\* process_pairs has returned Ok: find_resolution(&coverage, args.prop,
\* args.count_threshold, args.step_size).
StartSearch(p, threshold, step) ==
    /\ pc = "done"
    /\ pc' = "fr_entry"
    /\ prop' = p
    /\ count_threshold' = threshold
    /\ step_size' = step
    /\ UNCHANGED <<machineVars, storeVars, callVars, searchLocals, resolution,
                   tested>>

InitRun == InitStore

NextRun ==
    \/ \E cp \in 1..MaxPairs, sp \in 1..MaxPairs : StartProcessPairs(cp, sp)
    \/ \E p \in RunPairs : ReadPair(p)
    \/ EndOfStream
    \/ StreamError
    \/ \E k \in 1..(MaxPairs + 1) : Worker(k)
    \/ Merge
    \/ \E p \in RunProps, step \in {0, MaxLen} : StartSearch(p, 1, step)
    \/ Enter
    \/ CoarseStep
    \/ BinaryStep
    \/ BinaryReturn

SpecRun == InitRun /\ [][NextRun]_vars

IngestPcs == {"new", "incremented", "pair_added", "loop", "par", "done", "error"}

SearchPcs == {"fr_entry", "coarse", "binary", "returned"}

\* C14: the search only reads the store and strictly follows ingestion: it
\* is entered only after process_pairs has returned with nothing buffered or
\* pending, no step of the search changes a counter, bin_width or
\* chr_lengths, and no step of ingestion is taken once the search has begun.
C14_SearchReadOnlyAfterIngestion ==
    [][/\ (pc # "fr_entry" /\ pc' = "fr_entry") =>
              (pc = "done" /\ buf = << >> /\ partials = << >>)
       /\ (pc \in SearchPcs \/ pc' \in SearchPcs) =>
              (coverage' = coverage /\ pc' \notin IngestPcs)]_vars

C14_Witness ==
    /\ pc = "returned"
    /\ count = 2
    /\ \E c \in DOMAIN coverage.bins : \E i \in DOMAIN coverage.bins[c] :
          coverage.bins[c][i] > 0
    /\ Len(tested) >= 3

\* C15: over any sequence of store operations (increment, add_pair, the
\* aggregator's merge) every counter is non-decreasing.
C15_CountersNeverDecrease ==
    [][\A c \in DOMAIN coverage.bins : \A i \in DOMAIN coverage.bins[c] :
           coverage'.bins[c][i] >= coverage.bins[c][i]]_vars

C15_Witness ==
    /\ pc = "done"
    /\ chunk_pairs = 1
    /\ count = 2
    /\ \E c \in DOMAIN coverage.bins : \E i \in DOMAIN coverage.bins[c] :
          /\ coverage.bins[c][i] = U32_MAX
          /\ ref.bins[c][i] = U32_MAX

\* C16: a coarse-scan iteration that does not stop sets low to the previous
\* high and moves high to a strictly greater multiple of bin_width, and the
\* coarse scan never ends in a panic.
C16_CoarseScanProgress ==
    /\ (pc = "coarse" /\ iteration > 0) =>
          /\ low < high
          /\ high % coverage.bin_width = 0
          /\ tested[Len(tested)].size = low
    /\ (pc = "panicked" /\ ~found_upper) => tested = << >>

\* C17: the first bin size evaluated is bin_width itself, and if the
\* criterion holds there find_resolution returns bin_width without
\* evaluating any other candidate.
C17_BaseResolutionFirst ==
    tested # << >> =>
        /\ tested[1].size = coverage.bin_width
        /\ tested[1].ok =>
              /\ Len(tested) = 1
              /\ pc \in {"binary", "returned"}
              /\ pc = "returned" => resolution = coverage.bin_width

observed(size, ok) ==
    \E k \in DOMAIN tested :
        tested[k].size = size /\ tested[k].ok = ok /\ ~tested[k].panic

base_satisfied == tested # << >> /\ tested[1].ok

bracket_aligned ==
    /\ low % coverage.bin_width = 0
    /\ high % coverage.bin_width = 0
    /\ observed(high, TRUE)
    /\ ~base_satisfied => observed(low, FALSE)

binary_step_relation ==
    (pc = "binary" /\ pc' \in {"binary", "returned"}
        /\ high > low + coverage.bin_width) =>
        LET mid == least_multiple(low + ((high - low) \div 2),
                                  coverage.bin_width)
        IN /\ Len(tested') = Len(tested) + 1
           /\ tested'[Len(tested')].size = mid
           /\ IF tested'[Len(tested')].ok
              THEN high' = mid /\ low' = low
              ELSE low' = mid /\ high' = high

required_at(size) ==
    required_bins(prop, total_genome_size(coverage) \div size)

\* C19: every candidate s evaluated in either phase is decided by
\* count_good_bins(s, threshold) >= floor(prop * (genome_size div s)), so a
\* candidate whose requirement is 0 is accepted whatever the counters hold.
C19_SameCriterion ==
    \A k \in DOMAIN tested :
        LET s == tested[k].size IN
        s > 0 =>
            /\ ~tested[k].panic =>
                  tested[k].ok =
                     (count_good_bins(coverage, s, count_threshold).val
                         >= required_at(s))
            /\ required_at(s) = 0 => tested[k].ok

sparse_store ==
    100 * get_non_zero_bins(coverage)
        < total_genome_size(coverage) \div coverage.bin_width

\* C20: the coarse-scan stride is 10 * step_size exactly when
\* 100 * non_zero_bins < genome_size div bin_width and step_size otherwise;
\* it is fixed before the coarse scan and does not change afterwards.
C20_SparsityStride ==
    /\ pc \in {"coarse", "binary", "returned"} =>
          adjusted_step_size =
              IF sparse_store THEN 10 * step_size ELSE step_size
    /\ pc = "panicked" => (tested # << >> \/ found_upper)

(***************************************************************************)
(* Properties of the aggregator.                                           *)
(***************************************************************************)
workers_running == \E k \in DOMAIN partials : ~partials[k].done

\* C21: while a worker of the aggregation chunk is still computing, no
\* counter is written and the chunk buffer is not touched; the merge starts
\* only when every summary is complete and is the summary of its sub-chunk;
\* when the merge is over nothing is pending and the buffer is empty, and
\* only then is the next record read.
C21_ForkJoinBarrier ==
    [][/\ (pc = "par" /\ workers_running) =>
              (coverage' = coverage /\ buf' = buf /\ pc' = "par")
       /\ (pc = "par" /\ pc' # "par") =>
              /\ \A k \in DOMAIN partials :
                    /\ partials[k].done
                    /\ partials[k].out =
                          subchunk_summary(
                              par_chunks(buf, scl(subchunk_pairs))[k],
                              coverage.bin_width, coverage.chr_lengths)
              /\ partials' = << >>
              /\ buf' = << >>
       /\ (buf' # buf /\ pc # "par") => (pc = "loop" /\ partials = << >>)
       /\ (coverage' # coverage) =>
              (pc = "par" \/ pc \in {"new", "incremented", "pair_added"})]_vars

C21_Witness ==
    /\ pc = "par"
    /\ Len(partials) = 2
    /\ partials[2].done
    /\ partials[2].out # << >>
    /\ ~partials[1].done
    /\ coverage = from_lengths(coverage.bin_width, coverage.chr_lengths)
    /\ coverage.bins # << >>
    /\ \A c \in DOMAIN coverage.bins : coverage.bins[c] # << >>

RECURSIVE add_pairs(_, _)
add_pairs(self, pairs) ==
    IF pairs = << >> THEN self
    ELSE add_pairs(add_pair(self, Head(pairs)), Tail(pairs))

\* `count` lags by one while a full buffer is being merged inside the loop.
records_read == IF pc = "par" /\ ret = "loop" THEN count + 1 ELSE count

\* C22: in a stream without an upstream error every record read is handed to
\* the aggregator exactly once: the records merged so far together with the
\* buffered ones are the records read, so when process_pairs returns the
\* buffer is empty, the store is the store of all records read, each once,
\* and the count returned is the number of records read.
C22_BufferFlushing ==
    /\ [](pc \in {"loop", "par", "done"} =>
            /\ (pc # "par") => add_pairs(coverage, buf) = ref
            /\ Len(buf) <= records_read
            /\ (pc = "loop") => Len(buf) < chunk_pairs
            /\ (pc = "done") =>
                  (buf = << >> /\ partials = << >> /\ coverage = ref))
    /\ [][/\ (pc = "loop" /\ buf' # buf) =>
                 (Len(buf') = Len(buf) + 1 /\ records_read' = records_read + 1)
          /\ (pc = "par" /\ pc' # "par") =>
                 (coverage' = add_pairs(coverage, buf) /\ buf' = << >>
                    /\ records_read' = records_read)
          /\ (pc \in {"loop", "par", "done"} /\ ~(pc = "loop" /\ buf' # buf)) =>
                 records_read' = records_read]_vars

C22_Witness ==
    /\ pc = "done"
    /\ count = 2
    /\ chunk_pairs > count
    /\ coverage # from_lengths(coverage.bin_width, coverage.chr_lengths)
    /\ coverage = ref

\* The endpoints of `pairs` that are valid (chromosome index in
\* [1, num_chromosomes], position below the length) and fall in bin i of
\* chromosome c.
valid_endpoints(self, pairs, c, i) ==
    Cardinality({e \in (DOMAIN pairs) \X {1, 2} :
        LET p == pairs[e[1]]
            chr == IF e[2] = 1 THEN p.chr1 ELSE p.chr2
            pos == IF e[2] = 1 THEN p.pos1 ELSE p.pos2
        IN InRange(self, chr, pos) /\ chr = c /\ BinOf(self, pos) = i})

counted_once(before, after, pairs) ==
    \A c \in DOMAIN after.bins : \A i \in DOMAIN after.bins[c] :
        after.bins[c][i] =
            Min(before.bins[c][i] + valid_endpoints(before, pairs, c, i),
                U32_MAX)

\* C23: each endpoint of a record is validated and counted on its own: a
\* record adds to every counter exactly the number of its valid endpoints in
\* that bin (one when the other endpoint is out of range, two when both fall
\* in the bin), up to saturation, in add_pair and in the aggregator alike.
C23_EndpointIndependence ==
    [][/\ \A p \in Pairs(ApiChroms) :
              AddPair(p) => counted_once(coverage, coverage', <<p>>)
       /\ Merge => counted_once(coverage, coverage', buf)]_vars

\* C24: a value r returned through the binary-search path is a positive
\* multiple of bin_width at which the criterion was evaluated and holds, and
\* either r = bin_width or the criterion was evaluated at r - bin_width and
\* fails there.
C24_LocalMinimality ==
    (pc = "returned" /\ found_upper) =>
        /\ resolution > 0
        /\ resolution % coverage.bin_width = 0
        /\ observed(resolution, TRUE)
        /\ \/ resolution = coverage.bin_width
           \/ observed(resolution - coverage.bin_width, FALSE)

C24_Witness ==
    /\ pc = "returned"
    /\ found_upper
    /\ binary_iteration >= 2
    /\ resolution > 2 * coverage.bin_width
    /\ observed(resolution, TRUE)
    /\ observed(resolution - coverage.bin_width, FALSE)
    /\ adjusted_step_size = step_size

\* C25: every binary-search iteration evaluates a mid with low < mid < high,
\* so the gap shrinks; the loop never panics, never reaches the iteration
\* cap, and exits with high = low + bin_width or low = high = bin_width.
C25_BinaryConvergence ==
    [][pc = "binary" =>
          /\ pc' # "panicked"
          /\ Len(tested') > Len(tested) =>
                /\ low < tested'[Len(tested')].size
                /\ tested'[Len(tested')].size < high
                /\ high' - low' < high - low
          /\ pc' = "returned" =>
                /\ binary_iteration' <= BINARY_ITERATION_CAP
                /\ \/ high' = low' + coverage.bin_width
                   \/ low' = high' /\ high' = coverage.bin_width]_vars

\* C26: at every candidate bin size s evaluated by find_resolution the
\* number of good bins is at most total_bins = genome_size div s.
C26_GoodBinsBounded ==
    \A k \in DOMAIN tested :
        (tested[k].size > 0 /\ ~tested[k].panic) =>
            count_good_bins(coverage, tested[k].size, count_threshold).val
                <= total_genome_size(coverage) \div tested[k].size

\* C27: the value returned is at most the ceiling min(10_000_000,
\* genome_size) rounded up to a multiple of bin_width, and no candidate above
\* that is evaluated.
C27_BoundedByCeiling ==
    LET top == least_multiple(ceiling_of(coverage), coverage.bin_width) IN
    /\ \A k \in DOMAIN tested : tested[k].size <= top
    /\ pc = "returned" => resolution <= top

(***************************************************************************)
(* Properties of the chunk sums.                                           *)
(***************************************************************************)
\* The sums the call recorded in cgb_args computes, per chromosome.
sums_of_call ==
    LET k == cgb_args.bin_size \div coverage.bin_width IN
    [c \in DOMAIN coverage.bins |->
        IF k >= LARGE_CHUNK THEN large_chunk_sums(coverage.bins[c], k)
        ELSE small_chunk_sums(coverage.bins[c], k)]

\* C28: the 32-bit sum of every chunk equals its true sum, in
\* count_good_bins, count_good_bins_large and get_counts: it neither wraps
\* nor aborts.
C28_ChunkSumsExact ==
    /\ pc = "counted" =>
          /\ ~cgb_ret.panic
          /\ \A c \in DOMAIN sums_of_call : \A j \in DOMAIN sums_of_call[c] :
                ~sums_of_call[c][j].overflow
    /\ pc = "summed" =>
          /\ ~gc_ret.panic
          /\ \A c \in DOMAIN gc_ret.val : \A j \in DOMAIN gc_ret.val[c] :
                gc_ret.val[c][j] =
                    chunk_true_sum(coverage.bins[c],
                                   gc_args.bin_size \div coverage.bin_width,
                                   j - 1)

\* The three ways of counting the good bins of one call.
small_path(self, bin_size, threshold) ==
    LET per_chr == [c \in DOMAIN self.bins |->
                       small_chunk_sums(self.bins[c],
                                        bin_size \div self.bin_width)]
    IN [panic |-> overflow_checks /\
                    \E c \in DOMAIN per_chr : \E k \in DOMAIN per_chr[c] :
                        per_chr[c][k].overflow,
        val |-> seq_sum_u64([c \in DOMAIN per_chr |->
                                count_good(per_chr[c], threshold)])]

counts_path(self, bin_size, threshold) ==
    LET counts == get_counts(self, bin_size) IN
    [panic |-> counts.panic,
     val |-> seq_sum_u64([c \in DOMAIN counts.val |->
                Cardinality({k \in DOMAIN counts.val[c] :
                                counts.val[c][k] >= threshold})])]

same_outcome(a, b) ==
    /\ a.panic = b.panic
    /\ ~a.panic => a.val = b.val

\* C29: for every store, threshold and bin size that is a positive multiple
\* of bin_width, the small-chunk path, the large-chunk path and counting the
\* entries >= threshold of get_counts have the same outcome, and it is the
\* outcome of count_good_bins on either side of the 1000-bin switch.
C29_PathEquivalence ==
    pc = "counted" =>
        LET small == small_path(coverage, cgb_args.bin_size, cgb_args.threshold)
            large == count_good_bins_large(coverage, cgb_args.bin_size,
                                           cgb_args.threshold)
            counted == counts_path(coverage, cgb_args.bin_size,
                                   cgb_args.threshold)
        IN /\ same_outcome(cgb_ret, small)
           /\ same_outcome(cgb_ret, large)
           /\ same_outcome(cgb_ret, counted)

C29_Witness ==
    /\ pc = "counted"
    /\ cgb_args.bin_size \div coverage.bin_width = LARGE_CHUNK
    /\ ~cgb_ret.panic
    /\ cgb_ret.val = 1
    /\ coverage.bins = <<<<3, 5, 0>>>>
    /\ cgb_args.threshold = 8
    /\ count_good_bins(coverage, 3, 8).val = 1
    /\ count_good_bins(coverage, 2, 8).val = 1
    /\ count_good_bins(coverage, 1, 8).val = 0

\* C30: when the record source yields an error process_pairs returns at
\* once without flushing: the store is left as the last completed merge left
\* it, so the buffered records contribute nothing and no record contributes
\* in part, and neither the store nor the control state changes afterwards:
\* the search is never started.
C30_UpstreamError ==
    [][/\ (pc # "error" /\ pc' = "error") =>
              /\ pc = "loop"
              /\ partials = << >>
              /\ coverage' = coverage
              /\ buf' = buf
              /\ add_pairs(coverage, buf) = ref
       /\ pc = "error" => (pc' = "error" /\ coverage' = coverage)]_vars

C30_Witness ==
    /\ pc = "error"
    /\ Len(buf) = 1
    /\ count = 1
    /\ coverage = from_lengths(coverage.bin_width, coverage.chr_lengths)
    /\ ref # coverage
    /\ resolution = 0
    /\ tested = << >>

====
